---- MODULE Spec2Model ----
(***************************************************************************)
(* Model of the telemetry service of lab2/main.py: the CRUDL endpoints     *)
(* over the processed_agent_data table, the per-request database session,  *)
(* and the WebSocket subscription registry with its fan-out helper; and of *)
(* the file data source of src/file_datasource.py.                         *)
(*                                                                         *)
(* Numeric column values are abstract numbers: a PostgreSQL FLOAT column   *)
(* is a double, as is a Python float, and a DateTime column keeps the      *)
(* microseconds of a Python datetime, so storing and reloading a value     *)
(* returns the value written.                                              *)
(*                                                                         *)
(* Each HTTP handler is one step: the claims about the endpoints speak of  *)
(* sequences of requests.  The WebSocket code is split at its awaits       *)
(* (accept, receive_text, send_json), where the event loop may run another *)
(* handler.                                                                *)
(***************************************************************************)
EXTENDS Integers, Sequences, FiniteSets, TLC

\* ------------------------------------------------------------- bounds
\* Rows the id sequence may hand out before the model stops creating.
MaxId == 2
\* Last instant of the wall clock (datetime.utcnow) the model distinguishes.
MaxClock == 2
\* WebSocket connections that may be opened.
MaxConn == 3
\* HTTP requests followed from their arrival to their end.
MaxReq == 3
\* Data lines (after the header) an input file may hold.
MaxLines == 2
\* Calls of startReading on the data source.
MaxStarts == 2

VARIABLES
    store,      \* the rows of table processed_agent_data (a set of rows)
    nextId,     \* the next value of the id column's sequence
    clock,      \* datetime.utcnow()
    last,       \* the most recent HTTP request with its response
    prev,       \* the HTTP request and response before `last`
    created,    \* history: the ids the create responses have returned
    live,       \* history: the rows the responses say exist (see Observe)
    subscriptions,  \* the dict subscriptions: user id -> set of WebSockets
    wsState,    \* where each connection's websocket_endpoint call stands
    wsUser,     \* the path parameter user_id of each connection's handler
    fanPc,      \* where the send_data_to_subscribers call stands
    fanUser,    \* its argument user_id
    fanSize,    \* the size of the set when its iterator was made
    fanPassed,  \* the sockets whose slot the set iterator has passed
    fanCur,     \* the socket of the pending send_json (0: none)
    fanSent,    \* the sockets send_json was called on
    fanCallSet, \* history: subscriptions[user_id] at the time of the call
    reqState,   \* where each HTTP request stands between get_db and its end
    reqOp,      \* the endpoint each request is for
    reqOutcome, \* how each request's handler ended
    sessions,   \* the database sessions that are open, by request
    acquired,   \* history: how many sessions each request has been given
    disk,       \* the lines each input file holds (-1: there is no such file)
    refs,       \* self.accelerometer_file, self.gps_file, self.parking_file
    dropped,    \* the open file objects that no attribute refers to any more
    fres,       \* the most recent call on the data source and how it ended
    phase,      \* history: the last of startReading / stopReading called
    starts,     \* history: the calls of startReading so far
    run         \* history: read() calls since a startReading that returned

crudVars == <<store, nextId, clock, last, prev, created, live>>

fanVars == <<fanPc, fanUser, fanSize, fanPassed, fanCur, fanSent, fanCallSet>>

wsVars == <<subscriptions, wsState, wsUser, fanVars>>

dbVars == <<reqState, reqOp, reqOutcome, sessions, acquired>>

fileVars == <<disk, refs, dropped, fres, phase, starts, run>>

vars == <<crudVars, wsVars, dbVars, fileVars>>

\* What the steps of each part leave alone.
notCrudVars == <<wsVars, dbVars, fileVars>>

notWsVars == <<crudVars, dbVars, fileVars>>

notDbVars == <<crudVars, wsVars, fileVars>>

notFileVars == <<crudVars, wsVars, dbVars>>

\* ------------------------------------------------------------- data
\* ProcessedAgentDataCreate: the seven fields of a request body.
ProcessedAgentDataCreate ==
    { [road_state |-> "dry", user_id |-> 1, x |-> 1, y |-> 2, z |-> 98,
       latitude |-> 50, longitude |-> 30],
      [road_state |-> "wet", user_id |-> 2, x |-> 3, y |-> 4, z |-> 97,
       latitude |-> 49, longitude |-> 31] }

\* Path parameter processed_agent_data_id: ids the sequence can produce and
\* one it never does.
Ids == 1 .. (MaxId + 1)

\* Faulty variant: longitude=data.latitude.
NewRowNoLongitude(data, id, now) ==
    [id |-> id, road_state |-> data.road_state, user_id |-> data.user_id,
     x |-> data.x, y |-> data.y, z |-> data.z,
     latitude |-> data.latitude, longitude |-> data.latitude,
     timestamp |-> now]

\* ProcessedAgentData(road_state=..., ...) as inserted: the id comes from the
\* sequence and the timestamp from the column default datetime.utcnow.
NewRow(data, id, now) ==
    [id |-> id, road_state |-> data.road_state, user_id |-> data.user_id,
     x |-> data.x, y |-> data.y, z |-> data.z,
     latitude |-> data.latitude, longitude |-> data.longitude,
     timestamp |-> now]

\* The seven submitted fields of a row, as a request body.
Fields(r) ==
    [road_state |-> r.road_state, user_id |-> r.user_id,
     x |-> r.x, y |-> r.y, z |-> r.z,
     latitude |-> r.latitude, longitude |-> r.longitude]

\* db.query(ProcessedAgentData).filter(ProcessedAgentData.id == id).first():
\* the rows with that id, as a sequence of at most one row (empty for None).
FirstById(rows, id) ==
    IF \E r \in rows : r.id = id
    THEN << CHOOSE r \in rows : r.id = id >>
    ELSE << >>

\* Faulty variant: the update also moves the timestamp (an onupdate column).
AssignFieldsTouch(item, data) ==
    NewRow(data, item.id, item.timestamp + 1)

\* db_item.road_state = data.road_state ... db_item.longitude = data.longitude
\* The mapped column timestamp has a default and no onupdate, and the handler
\* does not assign it or the id.
AssignFields(item, data) ==
    NewRow(data, item.id, item.timestamp)

\* Faulty variant: UPDATE without the WHERE clause.
CommitUpdateAll(rows, item) ==
    { [item EXCEPT !.id = r.id, !.timestamp = r.timestamp] : r \in rows }

\* db.commit() after the assignments: UPDATE ... WHERE id = :id
CommitUpdate(rows, item) ==
    { IF r.id = item.id THEN item ELSE r : r \in rows }

\* Faulty variant: the delete is never committed.
CommitDeleteNothing(rows, item) ==
    rows

\* Faulty variant: DELETE without the WHERE clause.
CommitDeleteAll(rows, item) ==
    {}

\* db.delete(db_item); db.commit(): DELETE ... WHERE id = :id
CommitDelete(rows, item) ==
    { r \in rows : r.id # item.id }

\* db.add(db_item); db.commit(): INSERT
CommitInsert(rows, item) ==
    rows \cup {item}

\* Faulty variant: the sequence does not advance.
SequenceStuck(id) ==
    id

\* The value the id sequence hands out after `id`.
SequenceNext(id) ==
    id + 1

\* Faulty variant: .first() in place of .all().
AllFirstOnly(rows) ==
    IF rows = {} THEN { << >> } ELSE { << r >> : r \in rows }

\* db.query(ProcessedAgentData).all(): every row, in an order the query does
\* not fix.
All(rows) ==
    { s \in [1 .. Cardinality(rows) -> rows] :
        \A i, j \in 1 .. Cardinality(rows) : s[i] = s[j] => i = j }

\* A request and its response: the rows of the response body (none for 404).
Response(op, id, body, status, rows) ==
    [op |-> op, id |-> id, body |-> body, status |-> status, rows |-> rows]

NoRequest == Response("none", 0, << >>, 0, << >>)

\* What a client that has seen every response so far takes the table to hold:
\* a created or updated row as returned, without the rows whose delete
\* succeeded.
Observe(rows, resp) ==
    IF resp.status # 200 THEN rows
    ELSE IF resp.op = "create" THEN rows \cup {resp.rows[1]}
    ELSE IF resp.op = "update"
         THEN {r \in rows : r.id # resp.id} \cup {resp.rows[1]}
    ELSE IF resp.op = "delete" THEN {r \in rows : r.id # resp.id}
    ELSE rows

\* The steps of Next that are HTTP requests (Tick alone moves the clock).
Request == clock' = clock

\* ------------------------------------------------------------- CRUDL endpoints
InitCrud ==
    /\ store = {}
    /\ nextId = 1
    /\ clock = 0
    /\ last = NoRequest
    /\ prev = NoRequest
    /\ created = {}
    /\ live = {}

\* Time passes between requests.
Tick ==
    /\ clock < MaxClock
    /\ clock' = clock + 1
    /\ UNCHANGED <<store, nextId, last, prev, created, live>>
    /\ UNCHANGED notCrudVars

\* POST /processed_agent_data/
create_processed_agent_data ==
    \E data \in ProcessedAgentDataCreate :
        /\ nextId <= MaxId
        /\ LET db_item == NewRow(data, nextId, clock)
               stored == CommitInsert(store, db_item)
           IN  /\ store' = stored
               /\ nextId' = SequenceNext(nextId)
               \* db.refresh(db_item); return db_item
               /\ last' = Response("create", 0, << data >>, 200,
                                   FirstById(stored, db_item.id))
        /\ prev' = last
        /\ created' = created \cup {last'.rows[i].id : i \in 1 .. Len(last'.rows)}
        /\ live' = Observe(live, last')
        /\ UNCHANGED clock
        /\ UNCHANGED notCrudVars

\* GET /processed_agent_data/{processed_agent_data_id}
read_processed_agent_data ==
    \E id \in Ids :
        /\ LET db_item == FirstById(store, id)
           IN  last' = IF db_item = << >>
                       THEN Response("read", id, << >>, 404, << >>)
                       ELSE Response("read", id, << >>, 200, db_item)
        /\ prev' = last
        /\ UNCHANGED <<store, nextId, clock, created, live>>
        /\ UNCHANGED notCrudVars

\* GET /processed_agent_data/
list_processed_agent_data ==
    \E rows \in All(store) :
        /\ last' = Response("list", 0, << >>, 200, rows)
        /\ prev' = last
        /\ UNCHANGED <<store, nextId, clock, created, live>>
        /\ UNCHANGED notCrudVars

\* Faulty variant: a missing row is inserted before the 404 is raised.
update_or_insert ==
    \E id \in Ids, data \in ProcessedAgentDataCreate :
        /\ LET db_item == FirstById(store, id)
           IN  IF db_item = << >>
               THEN /\ last' = Response("update", id, << data >>, 404, << >>)
                    /\ store' = CommitInsert(store, NewRow(data, id, clock))
               ELSE LET item == AssignFields(db_item[1], data)
                        stored == CommitUpdate(store, item)
                    IN  /\ store' = stored
                        /\ last' = Response("update", id, << data >>, 200,
                                            FirstById(stored, item.id))
        /\ prev' = last
        /\ live' = Observe(live, last')
        /\ UNCHANGED <<nextId, clock, created>>
        /\ UNCHANGED notCrudVars

\* PUT /processed_agent_data/{processed_agent_data_id}
update_processed_agent_data ==
    \E id \in Ids, data \in ProcessedAgentDataCreate :
        /\ LET db_item == FirstById(store, id)
           IN  IF db_item = << >>
               THEN /\ last' = Response("update", id, << data >>, 404, << >>)
                    /\ UNCHANGED store
               ELSE LET item == AssignFields(db_item[1], data)
                        stored == CommitUpdate(store, item)
                    IN  /\ store' = stored
                        \* db.refresh(db_item); return db_item
                        /\ last' = Response("update", id, << data >>, 200,
                                            FirstById(stored, item.id))
        /\ prev' = last
        /\ live' = Observe(live, last')
        /\ UNCHANGED <<nextId, clock, created>>
        /\ UNCHANGED notCrudVars

\* DELETE /processed_agent_data/{processed_agent_data_id}
delete_processed_agent_data ==
    \E id \in Ids :
        /\ LET db_item == FirstById(store, id)
           IN  IF db_item = << >>
               THEN /\ last' = Response("delete", id, << >>, 404, << >>)
                    /\ UNCHANGED store
               ELSE /\ store' = CommitDelete(store, db_item[1])
                    \* return db_item: the deleted object keeps the attributes
                    \* it had loaded
                    /\ last' = Response("delete", id, << >>, 200, db_item)
        /\ prev' = last
        /\ live' = Observe(live, last')
        /\ UNCHANGED <<nextId, clock, created>>
        /\ UNCHANGED notCrudVars

NextCrud ==
    \/ Tick
    \/ create_processed_agent_data
    \/ read_processed_agent_data
    \/ list_processed_agent_data
    \/ update_processed_agent_data
    \/ delete_processed_agent_data

\* ------------------------------------------------------------- WebSocket registry
Conns == 1 .. MaxConn

\* Path parameter user_id of /ws/{user_id}.
UserIds == {1, 2}

\* Faulty variant: every key holds the same set object.
RegisterShared(subs, u, c) ==
    LET s == IF u \in DOMAIN subs THEN subs ELSE subs @@ (u :> {})
    IN  [k \in DOMAIN s |-> s[k] \cup {c}]

\* if user_id not in subscriptions: subscriptions[user_id] = set()
\* subscriptions[user_id].add(websocket)
Register(subs, u, c) ==
    LET s == IF u \in DOMAIN subs THEN subs ELSE subs @@ (u :> {})
    IN  [s EXCEPT ![u] = @ \cup {c}]

\* Faulty variant: subscriptions[user_id].clear()
UnregisterClear(subs, u, c) ==
    [subs EXCEPT ![u] = {}]

\* subscriptions[user_id].remove(websocket)
Unregister(subs, u, c) ==
    [subs EXCEPT ![u] = @ \ {c}]

\* The user ids under whose key connection c is registered.
KeysOf(subs, c) == {u \in DOMAIN subs : c \in subs[u]}

\* The fan-out is suspended in send_json inside its loop over user u's set.
Iterating(u) == fanPc = "sending" /\ fanUser = u

InitWs ==
    /\ subscriptions = << >>
    /\ wsState = [c \in Conns |-> "new"]
    /\ wsUser = [c \in Conns |-> 0]
    /\ fanPc = "idle"
    /\ fanUser = 0
    /\ fanSize = 0
    /\ fanPassed = {}
    /\ fanCur = 0
    /\ fanSent = {}
    /\ fanCallSet = {}

\* A client opens /ws/{u}: the handler starts and awaits websocket.accept().
\* Connections are numbered in the order they are opened.
Connect(c, u) ==
    /\ wsState[c] = "new"
    /\ c > 1 => wsState[c - 1] # "new"
    /\ wsState' = [wsState EXCEPT ![c] = "accepting"]
    /\ wsUser' = [wsUser EXCEPT ![c] = u]
    /\ UNCHANGED <<subscriptions, fanVars>>
    /\ UNCHANGED notWsVars

\* accept() returns: the handler registers the socket and awaits
\* receive_text().  A socket added to a set that is being iterated takes a
\* slot before or after the iterator's position.
Accept(c) ==
    /\ wsState[c] = "accepting"
    /\ subscriptions' = Register(subscriptions, wsUser[c], c)
    /\ wsState' = [wsState EXCEPT ![c] = "receiving"]
    /\ \E behind \in BOOLEAN :
          fanPassed' = IF Iterating(wsUser[c]) /\ behind
                       THEN fanPassed \cup {c} ELSE fanPassed
    /\ UNCHANGED <<wsUser, fanPc, fanUser, fanSize, fanCur, fanSent, fanCallSet>>
    /\ UNCHANGED notWsVars

\* accept() raises (the client went away during the handshake): the handler
\* ends before it has registered anything.
AcceptFails(c) ==
    /\ wsState[c] = "accepting"
    /\ wsState' = [wsState EXCEPT ![c] = "refused"]
    /\ UNCHANGED <<subscriptions, wsUser, fanVars>>
    /\ UNCHANGED notWsVars

\* receive_text() returns a text frame: it is dropped and the loop awaits
\* the next one.
ReceiveText(c) ==
    /\ wsState[c] = "receiving"
    /\ UNCHANGED <<subscriptions, wsState, wsUser, fanVars>>
    /\ UNCHANGED notWsVars

\* receive_text() raises WebSocketDisconnect (a close frame or a lost
\* connection, both delivered as websocket.disconnect): the except clause
\* removes the socket, and set.remove raises KeyError if it is not there.
ReceiveDisconnect(c) ==
    /\ wsState[c] = "receiving"
    /\ IF c \in subscriptions[wsUser[c]]
       THEN /\ subscriptions' = Unregister(subscriptions, wsUser[c], c)
            /\ wsState' = [wsState EXCEPT ![c] = "closed"]
       ELSE /\ wsState' = [wsState EXCEPT ![c] = "crashed"]
            /\ UNCHANGED subscriptions
    /\ UNCHANGED <<wsUser, fanVars>>
    /\ UNCHANGED notWsVars

\* receive_text() raises anything else (KeyError on a binary frame, which has
\* no "text"; CancelledError at shutdown): no clause catches it and the
\* handler ends there.
ReceiveRaises(c) ==
    /\ wsState[c] = "receiving"
    /\ wsState' = [wsState EXCEPT ![c] = "crashed"]
    /\ UNCHANGED <<subscriptions, wsUser, fanVars>>
    /\ UNCHANGED notWsVars

\* The peer of socket c can no longer be written to.
Gone(c) == wsState[c] # "receiving"

\* next() of the set iterator over subscriptions[u], then the call of
\* send_json on the socket it yields; the loop ends when no slot is left.
\* The iterator raises RuntimeError when the set's size is not the size it
\* had when the loop began.
Advance(u) ==
    LET rest == subscriptions[u] \ fanPassed
    IN  IF Cardinality(subscriptions[u]) # fanSize'
        THEN /\ fanPc' = "raised"
             /\ fanCur' = 0
             /\ UNCHANGED <<fanPassed, fanSent>>
        ELSE IF rest = {}
        THEN /\ fanPc' = "done"
             /\ fanCur' = 0
             /\ UNCHANGED <<fanPassed, fanSent>>
        ELSE \E w \in rest :
                /\ fanPc' = "sending"
                /\ fanCur' = w
                /\ fanPassed' = fanPassed \cup {w}
                /\ fanSent' = fanSent \cup {w}

\* send_data_to_subscribers(u, data) is called and runs to its first await.
\* The payload is the same for every socket and is left out.
FanStart(u) ==
    /\ fanPc = "idle"
    /\ fanUser' = u
    /\ IF u \in DOMAIN subscriptions
       THEN /\ fanSize' = Cardinality(subscriptions[u])
            /\ fanCallSet' = subscriptions[u]
            /\ Advance(u)
       ELSE /\ fanPc' = "done"
            /\ UNCHANGED <<fanSize, fanCallSet, fanPassed, fanCur, fanSent>>
    /\ UNCHANGED <<subscriptions, wsState, wsUser>>
    /\ UNCHANGED notWsVars

\* The pending send_json returns and the loop goes on.
FanSendReturns ==
    /\ fanPc = "sending"
    /\ fanSize' = fanSize
    /\ Advance(fanUser)
    /\ UNCHANGED <<subscriptions, wsState, wsUser, fanUser, fanCallSet>>
    /\ UNCHANGED notWsVars

\* The pending send_json raises, which it can when the peer is gone; the
\* exception leaves the loop.
FanSendRaises ==
    /\ fanPc = "sending"
    /\ Gone(fanCur)
    /\ fanPc' = "raised"
    /\ fanCur' = 0
    /\ UNCHANGED <<subscriptions, wsState, wsUser, fanUser, fanSize,
                   fanPassed, fanSent, fanCallSet>>
    /\ UNCHANGED notWsVars

\* The caller of send_data_to_subscribers has its result; a later call starts
\* afresh.
FanReturn ==
    /\ fanPc \in {"done", "raised"}
    /\ fanPc' = "idle"
    /\ fanUser' = 0
    /\ fanSize' = 0
    /\ fanPassed' = {}
    /\ fanCur' = 0
    /\ fanSent' = {}
    /\ fanCallSet' = {}
    /\ UNCHANGED <<subscriptions, wsState, wsUser>>
    /\ UNCHANGED notWsVars

NextWs ==
    \/ \E c \in Conns, u \in UserIds : Connect(c, u)
    \/ \E c \in Conns : Accept(c)
    \/ \E c \in Conns : AcceptFails(c)
    \/ \E c \in Conns : ReceiveText(c)
    \/ \E c \in Conns : ReceiveDisconnect(c)
    \/ \E c \in Conns : ReceiveRaises(c)
    \/ \E u \in UserIds : FanStart(u)
    \/ FanSendReturns
    \/ FanSendRaises
    \/ FanReturn

\* ------------------------------------------------------------- database sessions
Reqs == 1 .. MaxReq

\* The endpoints that take db: Session = Depends(get_db).
Endpoints == {"create", "read", "list", "update", "delete"}

\* The ways a handler ends: it returns, it raises HTTPException(404) (the
\* three handlers that look a row up), or a database call in it raises.
Outcomes(op) ==
    IF op \in {"read", "update", "delete"}
    THEN {"returned", "not_found", "error"}
    ELSE {"returned", "error"}

InitDb ==
    /\ reqState = [r \in Reqs |-> "idle"]
    /\ reqOp = [r \in Reqs |-> "none"]
    /\ reqOutcome = [r \in Reqs |-> "none"]
    /\ sessions = {}
    /\ acquired = [r \in Reqs |-> 0]

\* Faulty variant: yield db; db.close() with no try/finally.
GetDbExitNoFinally(open, r, outcome) ==
    IF outcome = "returned" THEN open \ {r} ELSE open

\* get_db after its yield: the finally clause closes the session however the
\* handler ended.
GetDbExit(open, r, outcome) ==
    open \ {r}

\* A request arrives and FastAPI resolves Depends(get_db): db = SessionLocal()
\* and the generator yields db to the handler.  Requests are numbered in
\* the order they arrive.
GetDbEnter(r, op) ==
    /\ reqState[r] = "idle"
    /\ r > 1 => reqState[r - 1] # "idle"
    /\ sessions' = sessions \cup {r}
    /\ acquired' = [acquired EXCEPT ![r] = @ + 1]
    /\ reqOp' = [reqOp EXCEPT ![r] = op]
    /\ reqState' = [reqState EXCEPT ![r] = "handling"]
    /\ UNCHANGED reqOutcome
    /\ UNCHANGED notDbVars

\* The handler of request r ends.
HandlerEnds(r, outcome) ==
    /\ reqState[r] = "handling"
    /\ outcome \in Outcomes(reqOp[r])
    /\ reqOutcome' = [reqOutcome EXCEPT ![r] = outcome]
    /\ reqState' = [reqState EXCEPT ![r] = "exiting"]
    /\ UNCHANGED <<reqOp, sessions, acquired>>
    /\ UNCHANGED notDbVars

\* The generator is resumed (or the exception thrown into it) and the request
\* is over.
RequestEnds(r) ==
    /\ reqState[r] = "exiting"
    /\ sessions' = GetDbExit(sessions, r, reqOutcome[r])
    /\ reqState' = [reqState EXCEPT ![r] = "finished"]
    /\ UNCHANGED <<reqOp, reqOutcome, acquired>>
    /\ UNCHANGED notDbVars

NextDb ==
    \/ \E r \in Reqs, op \in Endpoints : GetDbEnter(r, op)
    \/ \E r \in Reqs, outcome \in {"returned", "not_found", "error"} :
          HandlerEnds(r, outcome)
    \/ \E r \in Reqs : RequestEnds(r)

\* ------------------------------------------------------------- file data source
\* The three input files, in the order the methods take them.
Files == <<"accelerometer", "gps", "parking">>

FileSet == {Files[i] : i \in 1 .. 3}

\* The text of a number, and the number a text stands for.
Digits == <<"1", "2", "3", "4", "5", "6", "7", "8", "9">>

IsNumber(tok) == \E i \in 1 .. Len(Digits) : Digits[i] = tok

\* int(tok) / float(tok), for a tok that IsNumber.
NumberOf(tok) == CHOOSE i \in 1 .. Len(Digits) : Digits[i] = tok

\* Line n of file f, as its comma-separated fields: line 1 is the header,
\* line k + 1 the k-th data line.
FileLine(f, n) ==
    LET k == n - 1
    IN  IF f = "accelerometer"
        THEN IF n = 1 THEN <<"x", "y", "z">>
             ELSE <<Digits[k], Digits[k + 1], Digits[k + 2]>>
        ELSE IF f = "gps"
        THEN IF n = 1 THEN <<"longitude", "latitude">>
             ELSE <<Digits[k + 3], Digits[k]>>
        ELSE IF n = 1 THEN <<"empty_count", "longitude", "latitude">>
             ELSE <<Digits[k + 1], Digits[k], Digits[k + 2]>>

\* None, and the file object open(f) returns: at line 1, open.
None == [obj |-> FALSE, file |-> "", pos |-> 0, open |-> FALSE]

Opened(f) == [obj |-> TRUE, file |-> f, pos |-> 1, open |-> TRUE]

\* h.readline() on file object h: the line at its position, or '' (no fields
\* at all) at the end of the file.
Readline(h) ==
    IF h.pos <= disk[h.file] THEN FileLine(h.file, h.pos) ELSE << >>

\* The file object after readline() or next(): one line further, unless at
\* the end.
Advanced(h) ==
    IF h.pos <= disk[h.file] THEN [h EXCEPT !.pos = @ + 1] ELSE h

\* line.strip().split(','): the fields of the line; ''.split(',') is [''].
StripSplit(line) ==
    IF line = << >> THEN << "" >> ELSE line

\* Truth value of a list, as tested by `if accelerometer_data and ...`.
Truthy(list) == Len(list) > 0

\* Faulty variant: no test before close().
PresentAlways(ref) ==
    TRUE

\* `if self.accelerometer_file:` and its like: the attribute is not None
\* (an open or closed file object is true).
Present(ref) ==
    ref.obj

\* Faulty variant: the file is left open.
CloseNothing(h) ==
    h

\* h.close() (closing a closed file does nothing).
Close(h) ==
    [h EXCEPT !.open = FALSE]

\* A call and how it ended: "ok" / "None" / "record" for a return, the name of
\* the exception otherwise; `eof` tells that a readline() of the call was at
\* the end of its file.
Result(op, result, record, eof) ==
    [op |-> op, result |-> result, record |-> record, eof |-> eof]

\* The input files the data source may be pointed at: each missing, empty,
\* or a header line with up to MaxLines data lines.
Disks == [FileSet -> -1 .. (MaxLines + 1)]

\* FileDatasource(...) as constructed.
InitFile ==
    /\ refs = [f \in FileSet |-> None]
    /\ dropped = 0
    /\ fres = Result("none", "ok", << >>, FALSE)
    /\ phase = "new"
    /\ starts = 0
    /\ run = -1

\* The three open(...) of startReading in turn: each stores a new file object
\* in its attribute, and the object the attribute held is referred to no
\* more; a missing file raises FileNotFoundError and the rest is not run.
OpenStep(st, f) ==
    IF st.err # "" THEN st
    ELSE IF disk[f] = -1 THEN [st EXCEPT !.err = "FileNotFoundError"]
    ELSE [st EXCEPT !.rf[f] = Opened(f),
                    !.dropped = IF st.rf[f].open THEN @ + 1 ELSE @]

\* The three next(...) of startReading in turn: each skips the header line;
\* an empty file raises StopIteration and the rest is not run.
SkipStep(st, f) ==
    IF st.err # "" THEN st
    ELSE IF st.rf[f].pos > disk[f] THEN [st EXCEPT !.err = "StopIteration"]
    ELSE [st EXCEPT !.rf[f] = Advanced(@)]

\* startReading()
startReading ==
    /\ starts < MaxStarts
    /\ LET st0 == [err |-> "", rf |-> refs, dropped |-> dropped]
           opened == OpenStep(OpenStep(OpenStep(st0, Files[1]), Files[2]), Files[3])
           st == SkipStep(SkipStep(SkipStep(opened, Files[1]), Files[2]), Files[3])
       IN  /\ refs' = st.rf
           /\ dropped' = st.dropped
           /\ fres' = Result("start", IF st.err = "" THEN "ok" ELSE st.err,
                             << >>, FALSE)
           /\ run' = IF st.err = "" THEN 0 ELSE -1
    /\ phase' = "started"
    /\ starts' = starts + 1
    /\ UNCHANGED disk
    /\ UNCHANGED notFileVars

\* The three self.<x>_file.readline().strip().split(',') of read() in turn:
\* None has no readline (AttributeError), a closed file raises ValueError,
\* and the rest is not run.
ReadStep(st, f) ==
    IF st.err # "" THEN st
    ELSE IF ~st.rf[f].obj THEN [st EXCEPT !.err = "AttributeError"]
    ELSE LET h == st.rf[f]
         IN  IF ~h.open THEN [st EXCEPT !.err = "ValueError"]
             ELSE [st EXCEPT !.rf[f] = Advanced(h),
                             !.data[f] = StripSplit(Readline(h)),
                             !.eof = @ \/ Readline(h) = << >>]

\* [int(tok) for tok in fields], and whether it raises ValueError.
AllNumbers(fields) == \A i \in 1 .. Len(fields) : IsNumber(fields[i])

Numbers(fields) == [i \in 1 .. Len(fields) |-> NumberOf(fields[i])]

\* AggregatedData(Accelerometer(...), Gps(...), Parking(empty_count, Gps(...)),
\* ...) of the three lists of fields; the time and the user id, which do not
\* come from the files, are left out.
Aggregated(acc, gps, park) ==
    [accelerometer |-> Numbers(acc),
     gps |-> Numbers(gps),
     parking |-> [empty_count |-> NumberOf(park[1]),
                  gps |-> Numbers(SubSeq(park, 2, Len(park)))]]

\* read()
read ==
    /\ LET st0 == [err |-> "", rf |-> refs, eof |-> FALSE,
                   data |-> [f \in FileSet |-> << >>]]
           st == ReadStep(ReadStep(ReadStep(st0, Files[1]), Files[2]), Files[3])
           acc == st.data["accelerometer"]
           gps == st.data["gps"]
           park == st.data["parking"]
       IN  /\ refs' = st.rf
           /\ fres' =
                IF st.err # "" THEN Result("read", st.err, << >>, st.eof)
                ELSE IF Truthy(acc) /\ Truthy(gps) /\ Truthy(park)
                THEN IF AllNumbers(park) /\ AllNumbers(acc) /\ AllNumbers(gps)
                     THEN Result("read", "record",
                                 << Aggregated(acc, gps, park) >>, st.eof)
                     ELSE Result("read", "ValueError", << >>, st.eof)
                ELSE Result("read", "None", << >>, st.eof)
    /\ run' = IF run = -1 \/ run > MaxLines + 1 THEN run ELSE run + 1
    /\ UNCHANGED <<disk, dropped, phase, starts>>
    /\ UNCHANGED notFileVars

\* One `if self.<x>_file: self.<x>_file.close()` of stopReading.
StopStep(st, f) ==
    IF st.err # "" THEN st
    ELSE IF ~Present(st.rf[f]) THEN st
    ELSE IF ~st.rf[f].obj THEN [st EXCEPT !.err = "AttributeError"]
    ELSE [st EXCEPT !.rf[f] = Close(@)]

\* stopReading()
stopReading ==
    /\ LET st0 == [err |-> "", rf |-> refs]
           st == StopStep(StopStep(StopStep(st0, Files[1]), Files[2]), Files[3])
       IN  /\ refs' = st.rf
           /\ fres' = Result("stop", IF st.err = "" THEN "ok" ELSE st.err,
                             << >>, FALSE)
    /\ phase' = "stopped"
    /\ run' = -1
    /\ UNCHANGED <<disk, dropped, starts>>
    /\ UNCHANGED notFileVars

\* The interpreter finalizes a file object nothing refers to, which closes
\* it; when it does so is up to the interpreter.
Finalize ==
    /\ dropped > 0
    /\ dropped' = dropped - 1
    /\ UNCHANGED <<disk, refs, fres, phase, starts, run>>
    /\ UNCHANGED notFileVars

NextFile ==
    \/ startReading
    \/ read
    \/ stopReading
    \/ Finalize

Init ==
    /\ InitCrud /\ InitWs /\ InitDb /\ InitFile
    /\ disk = [f \in FileSet |-> MaxLines + 1]

\* The same, with the data source pointed at any of the input files.
InitAnyDisk ==
    /\ InitCrud /\ InitWs /\ InitDb /\ InitFile
    /\ disk \in Disks

Next == NextCrud

Spec == Init /\ [][Next]_vars

SpecWs == Init /\ [][NextWs]_vars

SpecDb == Init /\ [][NextDb]_vars

SpecFile == InitAnyDisk /\ [][NextFile]_vars

\* ------------------------------------------------------------- claims, CRUDL
\* C1: the row a create returns carries the seven submitted fields, and a
\* read-one of the returned id issued next returns that same row (same id,
\* fields and timestamp).
CreateThenReadSame ==
    /\ last.op = "create" =>
          /\ last.status = 200
          /\ Len(last.rows) = 1
          /\ Fields(last.rows[1]) = last.body[1]
    /\ (prev.op = "create" /\ last.op = "read" /\ last.id = prev.rows[1].id) =>
          /\ last.status = 200
          /\ last.rows = prev.rows

CreateThenReadSameWitness ==
    /\ prev.op = "create"
    /\ last.op = "read"
    /\ last.id = prev.rows[1].id
    /\ last.status = 200
    /\ clock > 0

\* The ids whose delete has succeeded, by the responses.
Deleted == created \ {r.id : r \in live}

\* C2: a read-one, update or delete of an id that no create has returned, or
\* whose delete has succeeded, answers 404; so does the second of two deletes
\* of one id.
GoneIsNotFound ==
    [][ (/\ Request
         /\ last'.op \in {"read", "update", "delete"}
         /\ (last'.id \notin created \/ last'.id \in Deleted))
        => (last'.status = 404 /\ last'.rows = << >>) ]_vars

GoneIsNotFoundWitness ==
    /\ prev.op = "delete" /\ prev.status = 200
    /\ last.op = "delete" /\ last.id = prev.id /\ last.status = 404
    /\ last.id \in Deleted
    /\ store # {}

\* C3: a list returns every row created and not since deleted, with its
\* latest fields, once each, and nothing else.
ListIsStore ==
    last.op = "list" =>
        /\ {last.rows[i] : i \in 1 .. Len(last.rows)} = live
        /\ Len(last.rows) = Cardinality(live)

ListIsStoreWitness ==
    /\ last.op = "list"
    /\ Len(last.rows) = 1
    /\ Deleted # {}
    /\ prev.op = "update" /\ prev.status = 200
    /\ Fields(last.rows[1]) = prev.body[1]

\* C4: the same update body applied twice in a row to an existing id leaves
\* the stored row, and the returned row, as the first application left them.
UpdateIdempotent ==
    (/\ prev.op = "update" /\ prev.status = 200
     /\ last.op = "update" /\ last.id = prev.id /\ last.body = prev.body)
    => /\ last.status = 200
       /\ last.rows = prev.rows
       /\ FirstById(store, last.id) = prev.rows

UpdateIdempotentWitness ==
    /\ prev.op = "update" /\ prev.status = 200
    /\ last.op = "update" /\ last.id = prev.id /\ last.body = prev.body
    /\ last.rows[1].timestamp < clock

\* C5: an update of an existing id sets the seven fields of that row to the
\* body and leaves its id, its timestamp and every other row as they were.
UpdateFrame ==
    [][ (Request /\ last'.op = "update" /\ last'.status = 200) =>
          LET old == FirstById(store, last'.id)
              new == FirstById(store', last'.id)
          IN  /\ Len(old) = 1 /\ Len(new) = 1
              /\ Fields(new[1]) = last'.body[1]
              /\ new[1].id = old[1].id
              /\ new[1].timestamp = old[1].timestamp
              /\ store' \ {new[1]} = store \ {old[1]}
              /\ last'.rows = new ]_vars

UpdateFrameWitness ==
    /\ last.op = "update" /\ last.status = 200
    /\ Cardinality(store) = 2
    /\ last.rows[1].timestamp < clock
    /\ \E r \in store : r.id # last.id /\ Fields(r) # last.body[1]

\* C6: a delete of an existing id removes that row and no other, and returns
\* the row as it was just before.
DeleteFrame ==
    [][ (Request /\ last'.op = "delete" /\ FirstById(store, last'.id) # << >>) =>
          /\ last'.status = 200
          /\ last'.rows = FirstById(store, last'.id)
          /\ store' = store \ {last'.rows[1]} ]_vars

DeleteFrameWitness ==
    /\ last.op = "delete" /\ last.status = 200
    /\ prev.op = "update" /\ prev.status = 200 /\ prev.id = last.id
    /\ last.rows = prev.rows
    /\ store # {}

\* C7: no two stored rows share an id, and a row keeps its id from creation
\* to deletion: an id enters the table only as the id a create returns and
\* leaves it only by a successful delete of that id.
IdsOf(rows) == {r.id : r \in rows}

IdUniqueImmutable ==
    /\ [](\A r1, r2 \in store : r1.id = r2.id => r1 = r2)
    /\ [][ /\ \A i \in IdsOf(store') \ IdsOf(store) :
                last'.op = "create" /\ last'.rows[1].id = i /\ i \notin created
           /\ \A i \in IdsOf(store) \ IdsOf(store') :
                last'.op = "delete" /\ last'.status = 200 /\ last'.id = i
           /\ Cardinality(store') = Cardinality(IdsOf(store')) ]_vars

IdUniqueImmutableWitness ==
    /\ Cardinality(store) = 2
    /\ last.op = "update" /\ last.status = 200
    /\ prev.op = "update" /\ prev.status = 200 /\ prev.id # last.id

\* C17: a read-one, update or delete that answers 404 leaves the stored rows,
\* and every field of each, as they were.
NotFoundChangesNothing ==
    [][ (/\ Request
         /\ last'.op \in {"read", "update", "delete"}
         /\ last'.status = 404)
        => store' = store ]_vars

NotFoundChangesNothingWitness ==
    /\ last.op = "delete" /\ last.status = 404
    /\ prev.op = "update" /\ prev.status = 404
    /\ Cardinality(store) = 2

\* ------------------------------------------------------------- claims, registry
\* The handler of connection c has ended.
Ended(c) == wsState[c] \in {"closed", "crashed", "refused"}

\* C8: a connection registered under user id U is in no other user's set at
\* any time, and once it has disconnected it is in no set at all.
OwnSetOnly ==
    \A c \in Conns :
        /\ KeysOf(subscriptions, c) \subseteq {wsUser[c]}
        /\ wsState[c] = "receiving" => KeysOf(subscriptions, c) = {wsUser[c]}
        /\ wsState[c] = "closed" => KeysOf(subscriptions, c) = {}

OwnSetOnlyWitness ==
    \E c1, c2, c3 \in Conns :
        /\ wsUser[c1] = 1 /\ wsState[c1] = "receiving"
        /\ wsUser[c2] = 2 /\ wsState[c2] = "receiving"
        /\ wsUser[c3] = 1 /\ wsState[c3] = "closed"
        /\ subscriptions[1] = {c1} /\ subscriptions[2] = {c2}

\* C9: whenever a WebSocket handler has ended, by a disconnect or by any
\* other error raised in the receive loop, its connection is no longer in
\* the registry.
EndedIsUnregistered ==
    \A c \in Conns : Ended(c) => KeysOf(subscriptions, c) = {}

\* C10: a finished send_data_to_subscribers(U, data) has sent to every socket
\* that was registered for U when it was called and to no socket registered
\* only under another user id, and to none when U had no registry entry.
FanoutReachesAll ==
    fanPc \in {"done", "raised"} =>
        /\ fanCallSet \subseteq fanSent
        /\ \A c \in fanSent : wsUser[c] = fanUser
        /\ fanUser \notin DOMAIN subscriptions => fanSent = {}

\* C11: while a fan-out is iterating user U's subscriber set (suspended in
\* send_json inside its loop), no connect or disconnect changes that set.
SetStableWhileIterated ==
    [][ \A u \in UserIds :
            Iterating(u) => subscriptions'[u] = subscriptions[u] ]_vars

\* C18: the disconnect of one connection removes that connection and no
\* other: the other connections of its user and every connection of every
\* other user stay registered.
DisconnectRemovesOnlySelf ==
    [][ \A c \in Conns :
            (wsState[c] = "receiving" /\ wsState'[c] = "closed") =>
                /\ c \in subscriptions[wsUser[c]]
                /\ DOMAIN subscriptions' = DOMAIN subscriptions
                /\ \A u \in DOMAIN subscriptions :
                       subscriptions'[u] = subscriptions[u] \ {c} ]_vars

DisconnectRemovesOnlySelfWitness ==
    \E c \in Conns :
        /\ wsState[c] = "closed"
        /\ wsUser[c] = 1
        /\ Cardinality(subscriptions[1]) = 2
        /\ \A d \in subscriptions[1] : wsState[d] = "receiving"

\* ------------------------------------------------------------- claims, sessions
\* C15: every HTTP request acquires one database session, and the session is
\* closed when the request is over, whether its handler returned, raised
\* not-found or failed otherwise; only requests in progress hold a session.
SessionClosedOnExit ==
    \A r \in Reqs :
        /\ reqState[r] # "idle" => acquired[r] = 1
        /\ reqState[r] = "finished" => r \notin sessions
        /\ r \in sessions => reqState[r] \in {"handling", "exiting"}

SessionClosedOnExitWitness ==
    /\ sessions = {}
    /\ \E r1, r2, r3 \in Reqs :
          /\ reqState[r1] = "finished" /\ reqOutcome[r1] = "returned"
          /\ reqState[r2] = "finished" /\ reqOutcome[r2] = "not_found"
          /\ reqState[r3] = "finished" /\ reqOutcome[r3] = "error"

\* ------------------------------------------------------------- claims, data source
\* The input files all hold a header line and n data lines.
Aligned(n) == disk = [f \in FileSet |-> n + 1]

\* The record of the k-th data line of every file.
RecordOfLine(k) ==
    Aggregated(FileLine("accelerometer", k + 1), FileLine("gps", k + 1),
               FileLine("parking", k + 1))

\* C12: after a startReading on files of a header and N aligned data lines,
\* the k-th read() (k <= N) returns the record built from the k-th data line
\* of every file, and the (N+1)-th read() returns the end-of-stream signal
\* (nothing) instead of raising.
AlignedReads ==
    \A n \in 0 .. MaxLines :
        (Aligned(n) /\ fres.op = "read" /\ run \in 1 .. (n + 1)) =>
            IF run <= n
            THEN /\ fres.result = "record"
                 /\ fres.record = << RecordOfLine(run) >>
            ELSE fres.result = "None"

\* The part of C12 about the first N calls alone.
AlignedReadsBeforeEnd ==
    \A n \in 0 .. MaxLines :
        (Aligned(n) /\ fres.op = "read" /\ run \in 1 .. n) =>
            /\ fres.result = "record"
            /\ fres.record = << RecordOfLine(run) >>

\* C13: a read() of a started data source that finds one of its three files
\* exhausted returns nothing; it does not raise.
ExhaustedReturnsNothing ==
    (fres.op = "read" /\ run >= 1 /\ fres.eof) => fres.result = "None"

\* C14: stopReading() on a data source never started returns normally and
\* leaves the three file attributes, and the open files, as they were.
StopBeforeStartIsNoop ==
    [][ (phase = "new" /\ phase' = "stopped") =>
            /\ fres'.op = "stop"
            /\ fres'.result = "ok"
            /\ refs' = refs
            /\ dropped' = dropped ]_vars

StopBeforeStartIsNoopWitness ==
    /\ phase = "stopped"
    /\ starts = 0
    /\ fres.op = "stop"
    /\ fres.result = "ok"
    /\ refs = [f \in FileSet |-> None]

StopClosesReferenced ==
    (fres.op = "stop" /\ fres.result = "ok") =>
        \A f \in FileSet : ~refs[f].open

\* C19: a read() before any startReading(), or after a stopReading() with no
\* startReading() since, raises and returns no record.
ReadOnlyWhileStarted ==
    (fres.op = "read" /\ phase \in {"new", "stopped"}) =>
        /\ fres.result \in {"AttributeError", "ValueError"}
        /\ fres.record = << >>

ReadOnlyWhileStartedWitness ==
    /\ phase = "stopped"
    /\ starts > 0
    /\ \A f \in FileSet : refs[f].obj /\ refs[f].pos > 1
    /\ fres.op = "read"
    /\ fres.result = "ValueError"

====
